---------------------------- MODULE Spec2Model ----------------------------
(***************************************************************************)
(* Model of src/main.py: GoogleSheetsManager (the two worksheets and the   *)
(* calls read_budget_data, read_transactions, update_expense,              *)
(* add_transaction, get_categories) and FinanceCalculator                  *)
(* (calculate_available, get_status_indicator).                            *)
(*                                                                         *)
(* A worksheet is the grid of its cells: a sequence of rows, row 1 being   *)
(* the header, each row a sequence of cells.  A cell holds the value that  *)
(* get_all_records hands to the program and that update_cell and           *)
(* append_row receive from it, written as its text.                        *)
(* Python text handled character by character (str(budget), str(spent) in  *)
(* calculate_available) is a sequence of one-character strings, and a      *)
(* Python float is the IEEE-754 double it is.                              *)
(***************************************************************************)
EXTENDS Integers, Sequences, FiniteSets, TLC

VARIABLES
    presupuesto,     \* the "Presupuesto" worksheet
    transacciones,   \* the "Transacciones" worksheet
    presupuesto0,    \* the budget worksheet as it was initially (history)
    transacciones0,  \* the transactions worksheet as it was initially (history)
    last,       \* the call of the manager completed last, its arguments and outcome
    lastWrite,  \* arguments of the latest update_expense that wrote a cell (history)
    pc,         \* where each session stands inside update_expense
    loc,        \* each session's locals in update_expense (category, amount, row_index)
    overlap,    \* the write another session made to the same category since this
                \* session's read (history)
    phase,      \* SpecCalc: which calculator function is exercised
    calcIn,     \* SpecCalc: <<budget, spent>> handed to calculate_available
    calcOut,    \* SpecCalc: outcome of calculate_available
    bands,      \* SpecCalc: thresholds of the bands below the first one
    availIn,    \* SpecCalc: <<a, b>> handed to get_status_indicator
    statusOut   \* SpecCalc: <<band of a, band of b>>

sheetVars == <<presupuesto, transacciones, presupuesto0, transacciones0, last, lastWrite>>
raceVars  == <<pc, loc, overlap>>
calcVars  == <<phase, calcIn, calcOut, bands, availIn, statusOut>>
vars      == <<sheetVars, raceVars, calcVars>>

---------------------------------------------------------------------------
(* Bounds of the model *)

\* greatest number of data rows of the initial budget worksheet
MaxRows == 2
\* greatest number of add_transaction calls in a run
MaxTx == 1
\* greatest length of an enumerated calculate_available input
MaxLen == 3
\* greatest number of status bands below the first one
MaxBands == 2

(* Constants of the program *)

\* update_expense: df index -> worksheet row ("+2 por header y indice 0")
HeaderOffset == 2
\* update_expense: the column of the spent amount
SpentCol == 3
\* get_status_indicator: threshold of the first band
TopThreshold == 1000

---------------------------------------------------------------------------
(* Inputs *)

Categories   == {"Food", "food", "Rent"}
Amounts      == {"10", "20"}
BudgetHeader == <<"Categoria", "Presupuesto", "Gasto">>
TxHeader     == <<"Fecha", "Categoria", "Descripcion", "Monto">>
\* the data rows a budget worksheet may start with
BudgetRows   == { <<"Food", "100", "0">>, <<"food", "200", "0">> }
\* the arguments add_transaction is called with: no field is validated
TxArgs       == { <<"2024-01-05", "Food", "lunch", "10">>, <<"", "nowhere", "", "-20">> }

RECURSIVE SeqsUpTo(_, _)
SeqsUpTo(S, n) ==
    IF n = 0 THEN { <<>> }
    ELSE LET shorter == SeqsUpTo(S, n - 1)
         IN shorter \cup { Append(s, x) : s \in { t \in shorter : Len(t) = n - 1 }, x \in S }

NoDf == [columns |-> <<>>, rows |-> <<>>]
\* over: the write of another session that an update_expense overwrote
NoCall == [op |-> "none", args |-> <<>>, raised |-> "none", ret |-> "none",
           df |-> NoDf, list |-> <<>>, over |-> <<>>]

---------------------------------------------------------------------------
(* gspread and pandas, as main.py uses them *)

\* Worksheet.get_all_records(): the rows below the header, each an ordered
\* mapping header cell -> cell; no record when only the header exists
get_all_records(ws) ==
    IF Len(ws) <= 1 THEN <<>>
    ELSE [i \in 1..(Len(ws) - 1) |->
            [j \in 1..Len(ws[1]) |-> <<ws[1][j], ws[i + 1][j]>>]]

\* pd.DataFrame(data): the columns are the keys of the records, so a
\* DataFrame of no record has no column
DataFrame(data) ==
    IF Len(data) = 0 THEN NoDf
    ELSE [columns |-> [j \in 1..Len(data[1]) |-> data[1][j][1]],
          rows    |-> [i \in 1..Len(data) |-> [j \in 1..Len(data[i]) |-> data[i][j][2]]]]

\* df[col]: the values of the column labelled col, in index order
Column(df, col) ==
    LET j == CHOOSE k \in 1..Len(df.columns) : df.columns[k] = col
    IN [i \in 1..Len(df.rows) |-> df.rows[i][j]]

\* mask.any()
any(mask) == \E i \in 1..Len(mask) : mask[i]

\* df[mask].index[0]: the (0-based) index label of the first selected row
first_index(mask) ==
    (CHOOSE i \in 1..Len(mask) : mask[i] /\ \A k \in 1..(i - 1) : ~mask[k]) - 1

\* Worksheet.update_cell(row, col, value), rows and columns counted from 1
update_cell(ws, row, col, value) ==
    [ws EXCEPT ![row][col] = value]

\* Worksheet.append_row(values)
append_row(ws, values) == Append(ws, values)

---------------------------------------------------------------------------
(* GoogleSheetsManager *)

\* get_worksheet: the worksheet of that name
get_worksheet(worksheet_name) ==
    CASE worksheet_name = "Presupuesto" -> presupuesto
      [] worksheet_name = "Transacciones" -> transacciones

\* read_budget_data / read_transactions
read_data(ws) == DataFrame(get_all_records(ws))

\* variant of locate that counts the header row and not the 0-based index
locate_m_offset(ws, category) ==
    LET df == DataFrame(get_all_records(ws))
    IN IF Len(df.columns) = 0 THEN [raised |-> "IndexError", found |-> FALSE, row_index |-> 0]
       ELSE LET category_col == df.columns[1]
                mask == [i \in 1..Len(df.rows) |-> Column(df, category_col)[i] = category]
            IN IF any(mask)
               THEN [raised |-> "none", found |-> TRUE, row_index |-> first_index(mask) + 1]
               ELSE [raised |-> "none", found |-> FALSE, row_index |-> 0]

\* variant of locate that takes the last matching row
locate_m_last(ws, category) ==
    LET df == DataFrame(get_all_records(ws))
    IN IF Len(df.columns) = 0 THEN [raised |-> "IndexError", found |-> FALSE, row_index |-> 0]
       ELSE LET category_col == df.columns[1]
                mask == [i \in 1..Len(df.rows) |-> Column(df, category_col)[i] = category]
            IN IF any(mask)
               THEN [raised |-> "none", found |-> TRUE,
                     row_index |-> (CHOOSE i \in 1..Len(mask) :
                                      mask[i] /\ \A k \in (i + 1)..Len(mask) : ~mask[k])
                                   - 1 + HeaderOffset]
               ELSE [raised |-> "none", found |-> FALSE, row_index |-> 0]

\* update_expense up to the row lookup: the worksheet row to write, or that
\* no row matches, or the IndexError of df.columns[0] on a DataFrame
\* without columns
locate(ws, category) ==
    LET df == DataFrame(get_all_records(ws))
    IN IF Len(df.columns) = 0 THEN [raised |-> "IndexError", found |-> FALSE, row_index |-> 0]
       ELSE LET category_col == df.columns[1]
                mask == [i \in 1..Len(df.rows) |-> Column(df, category_col)[i] = category]
            IN IF any(mask)
               THEN [raised |-> "none", found |-> TRUE,
                     row_index |-> first_index(mask) + HeaderOffset]
               ELSE [raised |-> "none", found |-> FALSE, row_index |-> 0]

\* variant of write_spent that writes the column before
write_spent_m_col(ws, row_index, amount) ==
    update_cell(ws, row_index, SpentCol - 1, amount)

\* update_expense: the cell write
write_spent(ws, row_index, amount) ==
    update_cell(ws, row_index, SpentCol, amount)

\* variant of add_transaction that inserts the row below the header
add_transaction_m_top(ws, date, category, description, amount) ==
    <<ws[1], <<date, category, description, amount>>>> \o Tail(ws)

\* add_transaction: the transactions worksheet after the call
add_transaction(ws, date, category, description, amount) ==
    append_row(ws, <<date, category, description, amount>>)

\* get_categories: df.iloc[:, 0].tolist(), an IndexError when df has no column
get_categories(ws) ==
    LET df == read_data(ws)
    IN IF Len(df.columns) = 0 THEN [raised |-> "IndexError", list |-> <<>>]
       ELSE [raised |-> "none", list |-> [i \in 1..Len(df.rows) |-> df.rows[i][1]]]

---------------------------------------------------------------------------
---------------------------------------------------------------------------
(* FinanceCalculator *)

Alphabet == {"$", ",", ".", "-", "1", "5", "e", " ", "_", "a"}
DigitChars == {"0", "1", "2", "3", "4", "5", "6", "7", "8", "9"}
\* the whitespace float() strips from both ends: space, tab, line feed,
\* carriage return, form feed, vertical tab (U+000B), next line (U+0085)
\* and no-break space (U+00A0); the last three stand in their strings as
\* the characters themselves
Whitespace == {" ", "\t", "\n", "\r", "\f", "", "", " "}

\* inputs of calculate_available given in full, beside the enumerated ones
Picked ==
    { <<"$", "1", ",", "2", "0", "0", ".", "0", "0">>,
      <<"$", "4", "5", "0", ".", "5", "0">>,
      <<"a", "b", "c">>,
      <<"1", "0", "0">>,
      <<"0", ".", "3">>,
      <<"0", ".", "1">>,
      <<"-", "7", ".", "2", "5">>,
      <<"1", ".", "2", ".", "3">>,
      <<"+", "5">>,
      <<"1", "e", "+", "1", "6">>,
      <<"1", "e", "-", "0", "5">>,
      <<"$", " ", "1", ",", "2", "0", "0">>,
      <<"", "1", "2">>,
      <<"1", "2", "">>,
      <<" ", "", "1", ".", "5", "", " ">>,
      <<" ", "5", "">>,
      <<"1", "", "2">>,
      <<"n", "a", "n">>,
      <<"i", "n", "f">>,
      <<"-", "I", "n", "f", "i", "n", "i", "t", "y">>,
      <<"N", "o", "n", "e">>,
      <<>> }

\* the second input when the first is enumerated
Partners ==
    { <<"1", "0", "0">>, <<"0", ".", "1">>, <<"$", "4", "5", "0", ".", "5", "0">>,
      <<"a", "b", "c">>, <<"n", "a", "n">>, <<"i", "n", "f">>, <<>> }

(* A float is an IEEE-754 double.  A finite one is written                 *)
(* [kind "num", sign, m, e] for sign * m * 2^e, with m a natural of any    *)
(* size that is odd, or zero with e = 0; m is held as its limbs below      *)
(* Base, lowest first, with no zero limb at the top.                       *)
LimbBits == 15
Base == 32768
\* a double has 53 bits of mantissa, its lowest bit is worth at least
\* 2^-1074 and its value is below 2^1024
MantissaBits == 53
MinExponent == 0 - 1074
MaxExponent == 1024

Num(sign, m, e) == [kind |-> "num", sign |-> sign, m |-> m, e |-> e]
Zero == Num(1, <<>>, 0)
Inf(sign) == [kind |-> "inf", sign |-> sign, m |-> <<>>, e |-> 0]
NaN == [kind |-> "nan", sign |-> 1, m |-> <<>>, e |-> 0]
NoVal == [raised |-> "none", val |-> Zero]

DigitVal(c) ==
    CASE c = "0" -> 0 [] c = "1" -> 1 [] c = "2" -> 2 [] c = "3" -> 3 [] c = "4" -> 4
      [] c = "5" -> 5 [] c = "6" -> 6 [] c = "7" -> 7 [] c = "8" -> 8 [] c = "9" -> 9

RECURSIVE Pow2(_)
Pow2(k) == IF k = 0 THEN 1 ELSE 2 * Pow2(k - 1)

Max(i, j) == IF i >= j THEN i ELSE j
Min(i, j) == IF i <= j THEN i ELSE j

\* the number of bits of n >= 0 below Base (of 0: none)
RECURSIVE NumBits(_)
NumBits(n) == IF n = 0 THEN 0 ELSE 1 + NumBits(n \div 2)

\* a without zero limbs at the top
trim(a) ==
    IF \A i \in 1..Len(a) : a[i] = 0 THEN <<>>
    ELSE SubSeq(a, 1, CHOOSE i \in 1..Len(a) : a[i] # 0 /\ \A k \in (i + 1)..Len(a) : a[k] = 0)

\* a with zero limbs added at the top, up to n limbs
pad(a, n) == a \o [i \in 1..(n - Len(a)) |-> 0]

\* the limbs d of a result and the carry c out of them, from those of its
\* low half and, computed with the carry of the low half, of its high half
join(low, high) == [d |-> low.d \o high.d, c |-> high.c]
with_carry(r) == IF r.c = 0 THEN r.d ELSE Append(r.d, r.c)

\* a * c + carry, for c > 0 and carry below Base: the low half of the limbs
\* first, the high half with the carry of the low half
RECURSIVE mul_limbs(_, _, _)
mul_high(a, c, low) ==
    join(low, mul_limbs(SubSeq(a, Len(a) \div 2 + 1, Len(a)), c, low.c))
mul_limbs(a, c, carry) ==
    IF a = <<>> THEN [d |-> <<>>, c |-> carry]
    ELSE IF Len(a) = 1
    THEN [d |-> <<(a[1] * c + carry) % Base>>, c |-> (a[1] * c + carry) \div Base]
    ELSE mul_high(a, c, mul_limbs(SubSeq(a, 1, Len(a) \div 2), c, carry))

mul_small(a, c, carry) == with_carry(mul_limbs(a, c, carry))

\* the quotient q and the remainder r of a by c below Base, a standing
\* under the remainder rem of the limbs above it: the high half of the
\* limbs first, the low half under the remainder of the high half (which
\* is below c)
RECURSIVE div_limbs(_, _, _)
div_join(high, low) == [q |-> low.q \o high.q, r |-> low.r]
div_low(a, c, high) ==
    IF high.r < c THEN div_join(high, div_limbs(SubSeq(a, 1, Len(a) \div 2), c, high.r))
    ELSE high
div_limbs(a, c, rem) ==
    IF a = <<>> THEN [q |-> <<>>, r |-> rem]
    ELSE IF Len(a) = 1
    THEN [q |-> <<(rem * Base + a[1]) \div c>>, r |-> (rem * Base + a[1]) % c]
    ELSE div_low(a, c, div_limbs(SubSeq(a, Len(a) \div 2 + 1, Len(a)), c, rem))

div_small(a, c) == div_limbs(a, c, 0)

\* a + b + carry, for a and b of the same number of limbs
RECURSIVE add_limbs(_, _, _)
add_high(a, b, low) ==
    join(low, add_limbs(SubSeq(a, Len(a) \div 2 + 1, Len(a)),
                        SubSeq(b, Len(a) \div 2 + 1, Len(a)), low.c))
add_limbs(a, b, carry) ==
    IF a = <<>> THEN [d |-> <<>>, c |-> carry]
    ELSE IF Len(a) = 1
    THEN [d |-> <<(a[1] + b[1] + carry) % Base>>, c |-> (a[1] + b[1] + carry) \div Base]
    ELSE add_high(a, b, add_limbs(SubSeq(a, 1, Len(a) \div 2),
                                  SubSeq(b, 1, Len(a) \div 2), carry))

add(a, b, carry) ==
    with_carry(add_limbs(pad(a, Max(Len(a), Len(b))), pad(b, Max(Len(a), Len(b))), carry))

\* a - b - borrow, for a and b of the same number of limbs, c the borrow out
RECURSIVE sub_limbs(_, _, _)
sub_high(a, b, low) ==
    join(low, sub_limbs(SubSeq(a, Len(a) \div 2 + 1, Len(a)),
                        SubSeq(b, Len(a) \div 2 + 1, Len(a)), low.c))
sub_limbs(a, b, borrow) ==
    IF a = <<>> THEN [d |-> <<>>, c |-> borrow]
    ELSE IF Len(a) = 1
    THEN [d |-> <<(a[1] - b[1] - borrow + Base) % Base>>,
          c |-> IF a[1] - b[1] - borrow < 0 THEN 1 ELSE 0]
    ELSE sub_high(a, b, sub_limbs(SubSeq(a, 1, Len(a) \div 2),
                                  SubSeq(b, 1, Len(a) \div 2), borrow))

\* a - b, for a >= b
sub(a, b) == trim(sub_limbs(a, pad(b, Len(a)), 0).d)

\* a < b, for a and b without zero limbs at the top
less(a, b) ==
    \/ Len(a) < Len(b)
    \/ /\ Len(a) = Len(b)
       /\ \E i \in 1..Len(a) : a[i] < b[i] /\ \A k \in (i + 1)..Len(a) : a[k] = b[k]

bitlen(a) == IF a = <<>> THEN 0 ELSE LimbBits * (Len(a) - 1) + NumBits(a[Len(a)])

\* a * 2^s and a \div 2^s
shl(a, s) ==
    IF a = <<>> THEN a
    ELSE [i \in 1..(s \div LimbBits) |-> 0] \o mul_small(a, Pow2(s % LimbBits), 0)

shr(a, s) == trim(div_small(SubSeq(a, s \div LimbBits + 1, Len(a)), Pow2(s % LimbBits)).q)

\* bit i of a is set (bit 0 the lowest)
bit(a, i) ==
    /\ i \div LimbBits + 1 <= Len(a)
    /\ (a[i \div LimbBits + 1] \div Pow2(i % LimbBits)) % 2 = 1

\* some bit of a below bit i is set
low_bits(a, i) ==
    \/ \E j \in 1..Len(a) : j <= i \div LimbBits /\ a[j] # 0
    \/ /\ i \div LimbBits + 1 <= Len(a)
       /\ a[i \div LimbBits + 1] % Pow2(i % LimbBits) # 0

\* the number of zero bits at the bottom of n > 0
RECURSIVE ZeroBits(_)
ZeroBits(n) == IF n % 2 = 1 THEN 0 ELSE 1 + ZeroBits(n \div 2)

\* the limb of a # 0 that holds its lowest set bit
low_limb(a) == CHOOSE i \in 1..Len(a) : a[i] # 0 /\ \A k \in 1..(i - 1) : a[k] = 0

\* the number of zero bits at the bottom of a # 0
low_zeros(a) == LimbBits * (low_limb(a) - 1) + ZeroBits(a[low_limb(a)])

\* the double sign * m * 2^e, which m's bits fit: inf from 2^1024 on
finite(sign, m, e) ==
    IF m = <<>> THEN Num(sign, <<>>, 0)
    ELSE IF bitlen(m) + e > MaxExponent THEN Inf(sign)
    ELSE Num(sign, shr(m, low_zeros(m)), e + low_zeros(m))

\* m * 2^e, plus a fraction of its lowest bit if sticky, less its lowest
\* drop bits: rounded to the nearest, a tie to the even one
round_at(sign, m, e, sticky, drop) ==
    IF drop <= 0 THEN finite(sign, m, e)
    ELSE IF bit(m, drop - 1) /\ (sticky \/ low_bits(m, drop - 1) \/ bit(m, drop))
    THEN finite(sign, add(shr(m, drop), <<>>, 1), e + drop)
    ELSE finite(sign, shr(m, drop), e + drop)

\* the double nearest to sign * m * 2^e (plus a fraction of the lowest bit
\* if sticky): 53 bits are kept, and none below 2^-1074
round_double(sign, m, e, sticky) ==
    round_at(sign, m, e, sticky, Max(bitlen(m) - MantissaBits, MinExponent - e))

\* a * 10^j, by halves of j
RECURSIVE times10(_, _)
times10(a, j) ==
    IF a = <<>> \/ j = 0 THEN a
    ELSE IF j = 1 THEN mul_small(a, 10, 0)
    ELSE times10(times10(a, j \div 2), j - j \div 2)

\* a \div 5^k by halves of k, sticky set where a remainder was left
RECURSIVE div5(_, _, _)
div5_once(d, sticky) == [q |-> trim(d.q), sticky |-> sticky \/ d.r # 0]
div5_rest(first, k) == div5(first.q, k, first.sticky)
div5(a, k, sticky) ==
    IF a = <<>> \/ k = 0 THEN [q |-> trim(a), sticky |-> sticky]
    ELSE IF k = 1 THEN div5_once(div_small(a, 5), sticky)
    ELSE div5_rest(div5(a, k \div 2, sticky), k - k \div 2)

round_quotient(sign, d, e) == round_double(sign, d.q, e, d.sticky)

\* the double nearest to the decimal sign * mag / 10^k.  Beyond the
\* doubles it is inf, under half the smallest it is zero; mag / 10^k is
\* otherwise computed with 56 bits and more and then rounded.
to_double(sign, mag, k) ==
    IF mag = <<>> THEN Num(sign, <<>>, 0)
    ELSE IF k <= 0 /\ bitlen(mag) - 1 + 3 * (0 - k) >= MaxExponent THEN Inf(sign)
    ELSE IF k > 0 /\ bitlen(mag) - 3 * k < MinExponent - 1 THEN Num(sign, <<>>, 0)
    ELSE IF k <= 0 THEN round_double(sign, times10(mag, 0 - k), 0, FALSE)
    ELSE round_quotient(sign, div5(shl(mag, 56 + 3 * k), k, FALSE), 0 - 56 - 4 * k)

\* x - y of two finite doubles, neither zero: a and b are their mantissas
\* at the exponent e
sub_aligned(x, y, a, b, e) ==
    IF x.sign # y.sign THEN round_double(x.sign, add(a, b, 0), e, FALSE)
    ELSE IF a = b THEN Zero
    ELSE IF less(a, b) THEN round_double(0 - x.sign, sub(b, a), e, FALSE)
    ELSE round_double(x.sign, sub(a, b), e, FALSE)

\* budget_val - spent_val.  An operand more than 64 bits below the other
\* is less than half the other's last bit, and the difference rounds to
\* the other.
Sub(x, y) ==
    IF x.kind = "nan" \/ y.kind = "nan" THEN NaN
    ELSE IF x.kind = "inf" THEN (IF y.kind = "inf" /\ y.sign = x.sign THEN NaN ELSE x)
    ELSE IF y.kind = "inf" THEN Inf(0 - y.sign)
    ELSE IF x.m = <<>> /\ y.m = <<>>
    THEN Num(IF x.sign = 0 - 1 /\ y.sign = 1 THEN 0 - 1 ELSE 1, <<>>, 0)
    ELSE IF y.m = <<>> THEN x
    ELSE IF x.m = <<>> THEN Num(0 - y.sign, y.m, y.e)
    ELSE IF bitlen(x.m) + x.e > bitlen(y.m) + y.e + 64 THEN x
    ELSE IF bitlen(y.m) + y.e > bitlen(x.m) + x.e + 64 THEN Num(0 - y.sign, y.m, y.e)
    ELSE sub_aligned(x, y, shl(x.m, x.e - Min(x.e, y.e)), shl(y.m, y.e - Min(x.e, y.e)),
                     Min(x.e, y.e))

\* str.replace(old, ''): every occurrence of the character is removed
replace(s, old) == SelectSeq(s, LAMBDA c : c # old)

\* str.strip() as float() applies it
RECURSIVE strip(_)
strip(s) ==
    IF s = <<>> THEN s
    ELSE IF s[1] \in Whitespace THEN strip(Tail(s))
    ELSE IF s[Len(s)] \in Whitespace THEN strip(SubSeq(s, 1, Len(s) - 1))
    ELSE s

\* the letters of inf, infinity and nan in lower case
lower(s) ==
    [i \in 1..Len(s) |->
        CASE s[i] = "I" -> "i" [] s[i] = "N" -> "n" [] s[i] = "F" -> "f"
          [] s[i] = "T" -> "t" [] s[i] = "Y" -> "y" [] s[i] = "A" -> "a"
          [] OTHER -> s[i]]

\* the ValueError float() raises on a text it cannot read
ValueError == [raised |-> "ValueError", val |-> Zero]

\* the digits, point and exponent of float(): u is read from position i on;
\* st is the part being read ("int", "frac", the exponent before its sign
\* "exp0", after its sign "exp1", in its digits "expd"), a holds the
\* mantissa digits mag, their count md, the count after the point fp, the
\* exponent ex and its sign.  '_' is passed over between two digits alone.
RECURSIVE scan(_, _, _, _, _)
scan(u, i, st, a, sign) ==
    IF i > Len(u)
    THEN IF a.md >= 1 /\ st \in {"int", "frac", "expd"}
         THEN [raised |-> "none",
               val |-> to_double(sign, a.mag, a.fp - (IF a.eneg THEN 0 - a.ex ELSE a.ex))]
         ELSE ValueError
    ELSE IF u[i] \in DigitChars
    THEN CASE st = "int" ->
                scan(u, i + 1, st, [a EXCEPT !.mag = mul_small(@, 10, DigitVal(u[i])),
                                             !.md = @ + 1], sign)
           [] st = "frac" ->
                scan(u, i + 1, st, [a EXCEPT !.mag = mul_small(@, 10, DigitVal(u[i])),
                                             !.md = @ + 1, !.fp = @ + 1], sign)
           [] OTHER ->
                scan(u, i + 1, "expd", [a EXCEPT !.ex = 10 * @ + DigitVal(u[i])], sign)
    ELSE IF u[i] = "_"
    THEN IF i > 1 /\ i < Len(u) /\ u[i - 1] \in DigitChars /\ u[i + 1] \in DigitChars
         THEN scan(u, i + 1, st, a, sign)
         ELSE ValueError
    ELSE IF u[i] = "." /\ st = "int" THEN scan(u, i + 1, "frac", a, sign)
    ELSE IF u[i] \in {"e", "E"} /\ st \in {"int", "frac"} /\ a.md >= 1
    THEN scan(u, i + 1, "exp0", a, sign)
    ELSE IF u[i] \in {"+", "-"} /\ st = "exp0"
    THEN scan(u, i + 1, "exp1", [a EXCEPT !.eneg = (u[i] = "-")], sign)
    ELSE ValueError

\* float() after the whitespace is stripped: an optional sign, then inf,
\* infinity or nan in any case, or a number
float_stripped(t, signed, sign) ==
    IF lower(IF signed THEN Tail(t) ELSE t)
           \in { <<"i", "n", "f">>, <<"i", "n", "f", "i", "n", "i", "t", "y">> }
    THEN [raised |-> "none", val |-> Inf(sign)]
    ELSE IF lower(IF signed THEN Tail(t) ELSE t) = <<"n", "a", "n">>
    THEN [raised |-> "none", val |-> NaN]
    ELSE scan(t, IF signed THEN 2 ELSE 1, "int",
              [mag |-> <<>>, md |-> 0, fp |-> 0, ex |-> 0, eneg |-> FALSE], sign)

float_signed(t) ==
    float_stripped(t, t # <<>> /\ t[1] \in {"+", "-"},
                   IF t # <<>> /\ t[1] = "-" THEN 0 - 1 ELSE 1)

\* float(s) of a text of ASCII characters: whitespace stripped, an optional
\* sign, then inf, infinity or nan in any case, or digits with an optional
\* point and an optional exponent, '_' allowed between two digits; a
\* ValueError otherwise
float(s) == float_signed(strip(s))

\* variant of try_available that leaves the ',' in
try_available_m_comma(budget, spent) ==
    LET budget_val == float(replace(budget, "$"))
    IN IF budget_val.raised # "none" THEN budget_val
       ELSE LET spent_val == float(replace(spent, "$"))
            IN IF spent_val.raised # "none" THEN spent_val
               ELSE [raised |-> "none", val |-> Sub(budget_val.val, spent_val.val)]

\* the try block of calculate_available; budget and spent are str(budget)
\* and str(spent)
try_available(budget, spent) ==
    LET budget_val == float(replace(replace(budget, "$"), ","))
    IN IF budget_val.raised # "none" THEN budget_val
       ELSE LET spent_val == float(replace(replace(spent, "$"), ","))
            IN IF spent_val.raised # "none" THEN spent_val
               ELSE [raised |-> "none", val |-> Sub(budget_val.val, spent_val.val)]

\* variant of calculate_available that handles TypeError alone
calculate_available_m_except(budget, spent) ==
    LET r == try_available(budget, spent)
    IN IF r.raised \in {"TypeError"} THEN NoVal ELSE r

\* calculate_available: the try block, and 0.0 on ValueError or TypeError
calculate_available(budget, spent) ==
    LET r == try_available(budget, spent)
    IN IF r.raised \in {"ValueError", "TypeError"} THEN NoVal ELSE r

\* the branches of get_status_indicator after the first: a chain of
\* "available > threshold" tests over descending thresholds, then the
\* final else; the value is the number of the branch taken, counting the
\* first branch of get_status_indicator as 1
lower_branch(available) ==
    IF \E i \in 1..Len(bands) : available > bands[i]
    THEN 1 + (CHOOSE i \in 1..Len(bands) :
                available > bands[i] /\ \A k \in 1..(i - 1) : ~(available > bands[k]))
    ELSE Len(bands) + 2

\* variant of get_status_indicator with the comparison turned round
get_status_indicator_m_cmp(available) ==
    IF available < TopThreshold THEN 1 ELSE lower_branch(available)

\* get_status_indicator: the number of the branch that returns
get_status_indicator(available) ==
    IF available > TopThreshold THEN 1 ELSE lower_branch(available)

---------------------------------------------------------------------------
(* Spec: sessions calling the manager.  Every call but update_expense is   *)
(* one remote call; update_expense is a remote read (get_all_records) and, *)
(* when a row matches, a remote write (update_cell), and other sessions    *)
(* may act between the two.  The calls name no worksheet: worksheet_name   *)
(* has its default.                                                        *)

Fresh == [category |-> "", amount |-> "", row_index |-> 0]
Sessions == {1, 2}

InitRace ==
    /\ pc = [s \in Sessions |-> "idle"]
    /\ loc = [s \in Sessions |-> Fresh]
    /\ overlap = [s \in Sessions |-> <<>>]

InitCalcIdle ==
    /\ phase = "off"
    /\ calcIn = << <<>>, <<>> >>
    /\ calcOut = <<>>
    /\ bands = <<>>
    /\ availIn = <<0, 0>>
    /\ statusOut = <<>>

InitSheets ==
    /\ presupuesto \in { <<BudgetHeader>> \o rows : rows \in SeqsUpTo(BudgetRows, MaxRows) }
    /\ transacciones = <<TxHeader, <<"2023-12-31", "Rent", "december", "300">>>>
    /\ presupuesto0 = presupuesto
    /\ transacciones0 = transacciones
    /\ last = NoCall
    /\ lastWrite = <<>>

Init == InitSheets /\ InitRace /\ InitCalcIdle

ReadBudgetData(s) ==
    /\ pc[s] = "idle"
    /\ last' = [NoCall EXCEPT !.op = "read_budget_data",
                              !.df = read_data(get_worksheet("Presupuesto"))]
    /\ UNCHANGED <<presupuesto, transacciones, presupuesto0, transacciones0, lastWrite,
                   raceVars, calcVars>>

ReadTransactions(s) ==
    /\ pc[s] = "idle"
    /\ last' = [NoCall EXCEPT !.op = "read_transactions",
                              !.df = read_data(get_worksheet("Transacciones"))]
    /\ UNCHANGED <<presupuesto, transacciones, presupuesto0, transacciones0, lastWrite,
                   raceVars, calcVars>>

AddTransaction(s) ==
    /\ pc[s] = "idle"
    /\ Len(transacciones) < Len(transacciones0) + MaxTx
    /\ \E t \in TxArgs :
          /\ transacciones' = add_transaction(get_worksheet("Transacciones"),
                                              t[1], t[2], t[3], t[4])
          /\ last' = [NoCall EXCEPT !.op = "add_transaction", !.args = t]
    /\ UNCHANGED <<presupuesto, presupuesto0, transacciones0, lastWrite, raceVars, calcVars>>

GetCategories(s) ==
    /\ pc[s] = "idle"
    /\ LET r == get_categories(get_worksheet("Presupuesto"))
       IN last' = [NoCall EXCEPT !.op = "get_categories", !.raised = r.raised,
                                 !.list = r.list]
    /\ UNCHANGED <<presupuesto, transacciones, presupuesto0, transacciones0, lastWrite,
                   raceVars, calcVars>>

\* update_expense up to "if mask.any()": the call goes on to the write, or
\* ends with False or with the IndexError
UpdateRead(s) ==
    /\ pc[s] = "idle"
    /\ \E category \in Categories, amount \in Amounts :
          LET l == locate(get_worksheet("Presupuesto"), category)
          IN IF l.raised = "none" /\ l.found
             THEN /\ pc' = [pc EXCEPT ![s] = "write"]
                  /\ loc' = [loc EXCEPT ![s] = [category |-> category, amount |-> amount,
                                                row_index |-> l.row_index]]
                  /\ overlap' = [overlap EXCEPT ![s] = <<>>]
                  /\ UNCHANGED last
             ELSE /\ last' = [NoCall EXCEPT !.op = "update_expense",
                                            !.args = <<category, amount>>,
                                            !.raised = l.raised,
                                            !.ret = IF l.raised # "none" THEN "none"
                                                    ELSE "False"]
                  /\ UNCHANGED <<pc, loc, overlap>>
    /\ UNCHANGED <<presupuesto, transacciones, presupuesto0, transacciones0, lastWrite,
                   calcVars>>

\* update_expense from update_cell on: the write and "return True"
UpdateWrite(s) ==
    /\ pc[s] = "write"
    /\ presupuesto' = write_spent(presupuesto, loc[s].row_index, loc[s].amount)
    /\ last' = [NoCall EXCEPT !.op = "update_expense",
                              !.args = <<loc[s].category, loc[s].amount>>,
                              !.ret = "True", !.over = overlap[s]]
    /\ lastWrite' = <<loc[s].category, loc[s].amount>>
    /\ pc' = [pc EXCEPT ![s] = "idle"]
    /\ loc' = [loc EXCEPT ![s] = Fresh]
    /\ overlap' = [o \in Sessions |->
                     IF o # s /\ pc[o] = "write" /\ loc[o].category = loc[s].category
                     THEN <<loc[s].amount, last'.ret>>
                     ELSE IF o = s THEN <<>> ELSE overlap[o]]
    /\ UNCHANGED <<transacciones, presupuesto0, transacciones0, calcVars>>

Next ==
    \E s \in Sessions :
        \/ ReadBudgetData(s)
        \/ ReadTransactions(s)
        \/ AddTransaction(s)
        \/ GetCategories(s)
        \/ UpdateRead(s)
        \/ UpdateWrite(s)

Spec == Init /\ [][Next]_vars

---------------------------------------------------------------------------
(* SpecCalc: the functions of FinanceCalculator on drawn inputs *)

Strings == SeqsUpTo(Alphabet, MaxLen)
ThresholdValues == {0, 250, 500}
AvailValues == {-1, 0, 1, 250, 251, 500, 501, 999, 1000, 1001, 2500}

Descending(t) == \A i \in 1..(Len(t) - 1) : t[i] > t[i + 1]

InitCalc ==
    /\ presupuesto = <<BudgetHeader>>
    /\ transacciones = <<TxHeader>>
    /\ presupuesto0 = presupuesto
    /\ transacciones0 = transacciones
    /\ last = NoCall
    /\ lastWrite = <<>>
    /\ InitRace
    /\ phase \in {"available", "status"}
    /\ calcOut = <<>>
    /\ statusOut = <<>>
    /\ IF phase = "available"
       THEN /\ \E x \in Strings \cup Picked, y \in Partners \cup Picked :
                  /\ x \in Picked \/ y \in Partners
                  /\ calcIn \in { <<x, y>>, <<y, x>> }
            /\ bands = <<>>
            /\ availIn = <<0, 0>>
       ELSE /\ calcIn = << <<>>, <<>> >>
            /\ bands \in { t \in SeqsUpTo(ThresholdValues, MaxBands) : Descending(t) }
            /\ availIn \in AvailValues \X AvailValues

CalculateAvailable ==
    /\ phase = "available"
    /\ calcOut = <<>>
    /\ calcOut' = <<calculate_available(calcIn[1], calcIn[2])>>
    /\ UNCHANGED <<sheetVars, raceVars, phase, calcIn, bands, availIn, statusOut>>

GetStatusIndicator ==
    /\ phase = "status"
    /\ statusOut = <<>>
    /\ statusOut' = <<get_status_indicator(availIn[1]), get_status_indicator(availIn[2])>>
    /\ UNCHANGED <<sheetVars, raceVars, phase, calcIn, calcOut, bands, availIn>>

NextCalc == CalculateAvailable \/ GetStatusIndicator

SpecCalc == InitCalc /\ [][NextCalc]_vars

---------------------------------------------------------------------------
(* What the properties speak of *)

\* a step in which a call of the named method of the manager ends
CallOf(op) ==
    /\ last'.op = op
    /\ last' # last \/ presupuesto' # presupuesto \/ transacciones' # transacciones

\* a step in which session s's update_expense finds its row and goes on to
\* the write, and the step of that write
ReadStep(s) == pc[s] = "idle" /\ pc'[s] = "write"
WriteStep(s) == pc[s] = "write" /\ pc'[s] = "idle"

\* the worksheet rows (below the header) whose first cell is the category
RowsOf(ws, category) == { i \in 2..Len(ws) : ws[i][1] = category }

\* the first of them in sheet order
FirstRowOf(ws, category) ==
    CHOOSE i \in RowsOf(ws, category) : \A k \in RowsOf(ws, category) : i <= k

\* ws2 is ws with the cell (row, col) holding value, and no other difference
OnlyCellWritten(ws, ws2, row, col, value) ==
    /\ Len(ws2) = Len(ws)
    /\ \A i \in 1..Len(ws) :
          /\ Len(ws2[i]) = Len(ws[i])
          /\ \A j \in 1..Len(ws[i]) :
                ws2[i][j] = IF i = row /\ j = col THEN value ELSE ws[i][j]

\* the first-column cells of the data rows, in sheet order
FirstColumn(ws) == [i \in 1..(Len(ws) - 1) |-> ws[i + 1][1]]

\* C1 (as claimed): update_expense with a category that no data row of the
\* budget worksheet has returns False and writes nothing: both worksheets
\* are the same after the call.
C1_NoMatchReturnsFalse ==
    [][ (CallOf("update_expense") /\ RowsOf(presupuesto, last'.args[1]) = {})
          => /\ last'.raised = "none"
             /\ last'.ret = "False"
             /\ presupuesto' = presupuesto
             /\ transacciones' = transacciones ]_vars

\* C2: add_transaction appends exactly one row, [date, category,
\* description, amount], at the end of the transactions worksheet; the rows
\* that were there are the same rows in the same order.
C2_AppendsOneRow ==
    [][ CallOf("add_transaction")
          => /\ Len(transacciones') = Len(transacciones) + 1
             /\ transacciones'[Len(transacciones')] = last'.args
             /\ \A i \in 1..Len(transacciones) : transacciones'[i] = transacciones[i]
             /\ presupuesto' = presupuesto ]_vars

C2_Witness ==
    /\ last.op = "add_transaction"
    /\ Len(transacciones0) = 2
    /\ Len(transacciones) = 3
    /\ transacciones[3] = last.args
    /\ transacciones[2] = transacciones0[2]
    /\ transacciones[2] # last.args

\* C3: update_expense with a category that some data row has (exact,
\* case-sensitive match) returns True and writes one cell: the spent cell
\* of the first such row becomes amount; every other cell, the spent cells
\* of later rows of the same category included, is unchanged.  The call
\* writes nothing before that write, and ends with it, whatever other
\* sessions do between its read and its write.
C3_WritesFirstMatch ==
    [][ /\ (CallOf("update_expense") /\ RowsOf(presupuesto, last'.args[1]) # {})
          => /\ last'.raised = "none"
             /\ last'.ret = "True"
        /\ \A s \in Sessions :
             /\ ReadStep(s) => /\ presupuesto' = presupuesto
                               /\ transacciones' = transacciones
             /\ WriteStep(s)
                  => /\ last'.op = "update_expense"
                     /\ last'.args = <<loc[s].category, loc[s].amount>>
                     /\ last'.ret = "True"
                     /\ OnlyCellWritten(presupuesto, presupuesto',
                                        FirstRowOf(presupuesto, loc[s].category),
                                        3, loc[s].amount)
                     /\ transacciones' = transacciones ]_vars

C3_Witness ==
    /\ last.op = "update_expense"
    /\ last.ret = "True"
    /\ Cardinality(RowsOf(presupuesto, last.args[1])) = 2
    /\ \E i, k \in RowsOf(presupuesto, last.args[1]) :
          /\ i < k
          /\ presupuesto[i][3] = last.args[2]
          /\ presupuesto[k][3] # last.args[2]

\* C7: whatever calls were made, the budget worksheet has the rows it had,
\* with the same category and budgeted cells in the same order (only spent
\* cells may differ), and the initial transactions worksheet is a prefix of
\* the current one.
C7_RowsKept ==
    /\ Len(presupuesto) = Len(presupuesto0)
    /\ \A i \in 1..Len(presupuesto0) :
          /\ Len(presupuesto[i]) = Len(presupuesto0[i])
          /\ presupuesto[i][1] = presupuesto0[i][1]
          /\ presupuesto[i][2] = presupuesto0[i][2]
    /\ Len(transacciones) >= Len(transacciones0)
    /\ \A i \in 1..Len(transacciones0) : transacciones[i] = transacciones0[i]

C7_Witness ==
    /\ \E i \in 2..Len(presupuesto) : presupuesto[i][3] # presupuesto0[i][3]
    /\ Len(transacciones) = Len(transacciones0) + 1
    /\ last.op = "get_categories"

\* C8: update_expense reads and then writes with no lock or version check
\* between.  Every call that found its category writes and returns True,
\* also when another session wrote the same category since this call's
\* read: that session had True returned too, and the spent cell now holds
\* this call's amount and no longer the other's.
C8_LastWriterWins ==
    [][ \A s \in Sessions :
          WriteStep(s)
            => LET cell == presupuesto'[FirstRowOf(presupuesto', loc[s].category)][3]
               IN /\ last'.ret = "True"
                  /\ last'.raised = "none"
                  /\ cell = loc[s].amount
                  /\ overlap[s] # <<>>
                       => /\ overlap[s][2] = "True"
                          /\ loc[s].amount # overlap[s][1] => cell # overlap[s][1] ]_vars

C8_Witness ==
    /\ last.op = "update_expense"
    /\ last.ret = "True"
    /\ last.over # <<>>
    /\ last.over[1] # last.args[2]
    /\ last.over[2] = "True"
    /\ presupuesto[FirstRowOf(presupuesto, last.args[1])][3] = last.args[2]

\* C9 (as claimed): get_categories returns the first-column cells of all
\* data rows in sheet order, and on an unchanged budget worksheet
\* update_expense(c, amount) returns True exactly when c is in that list.
C9_CategoriesUpdatable ==
    [][ /\ CallOf("get_categories")
          => /\ last'.raised = "none"
             /\ last'.list = FirstColumn(presupuesto)
        /\ (last.op = "get_categories" /\ CallOf("update_expense"))
          => (last'.ret = "True"
                <=> \E i \in 1..Len(last.list) : last.list[i] = last'.args[1]) ]_vars

\* C10: after an update_expense(c, amount) that returned True, and no
\* other write since, read_budget_data shows amount as the spent value of
\* the first row of category c, which is where it was before the write;
\* update_expense(c, amount) called again returns True and leaves the
\* worksheet as it is.
C10_ReadAfterWrite ==
    [][ /\ (lastWrite # <<>> /\ CallOf("read_budget_data"))
          => LET df == last'.df
                 at == FirstRowOf(presupuesto0, lastWrite[1]) - 1
             IN /\ Len(df.rows) = Len(presupuesto0) - 1
                /\ df.rows[at][1] = lastWrite[1]
                /\ \A k \in 1..(at - 1) : df.rows[k][1] # lastWrite[1]
                /\ df.rows[at][3] = lastWrite[2]
        /\ \A s \in Sessions :
             (WriteStep(s) /\ <<loc[s].category, loc[s].amount>> = lastWrite)
               => /\ last'.ret = "True"
                  /\ presupuesto' = presupuesto ]_vars

C10_Witness ==
    /\ last.op = "read_budget_data"
    /\ lastWrite # <<>>
    /\ Len(last.df.rows) = 2
    /\ last.df.rows[1][1] = lastWrite[1]
    /\ last.df.rows[2][1] = lastWrite[1]
    /\ last.df.rows[1][3] = lastWrite[2]
    /\ last.df.rows[2][3] # lastWrite[2]

\* a text without its '$' and ',' characters
Bare(t) == SelectSeq(t, LAMBDA c : c \notin {"$", ","})

\* a text without the whitespace at its two ends
Trimmed(t) ==
    IF \A i \in 1..Len(t) : t[i] \in Whitespace THEN <<>>
    ELSE SubSeq(t,
                CHOOSE i \in 1..Len(t) :
                    t[i] \notin Whitespace /\ \A k \in 1..(i - 1) : t[k] \in Whitespace,
                CHOOSE j \in 1..Len(t) :
                    t[j] \notin Whitespace /\ \A k \in (j + 1)..Len(t) : t[k] \in Whitespace)

\* a text without the sign it may start with
Unsigned(w) == IF w # <<>> /\ w[1] \in {"+", "-"} THEN Tail(w) ELSE w

\* every '_' of the text stands between two digits
UnderscoresBetweenDigits(b) ==
    \A i \in 1..Len(b) :
        b[i] = "_" => /\ i > 1 /\ i < Len(b)
                      /\ b[i - 1] \in DigitChars /\ b[i + 1] \in DigitChars

\* digits with at most one '.' among them, and one digit at least
IsMantissa(m) ==
    /\ \A i \in 1..Len(m) : m[i] \in DigitChars \cup {"."}
    /\ Cardinality({ i \in 1..Len(m) : m[i] = "." }) <= 1
    /\ \E i \in 1..Len(m) : m[i] \in DigitChars

\* 'e' or 'E', an optional sign, digits
IsExponent(x) ==
    /\ Len(x) >= 2
    /\ x[1] \in {"e", "E"}
    /\ x[2] \in DigitChars \cup {"+", "-"}
    /\ x[Len(x)] \in DigitChars
    /\ \A i \in 3..Len(x) : x[i] \in DigitChars

\* the length of the text before its first 'e' or 'E'
MantissaEnd(c) ==
    IF \E i \in 1..Len(c) : c[i] \in {"e", "E"}
    THEN (CHOOSE i \in 1..Len(c) :
            c[i] \in {"e", "E"} /\ \A k \in 1..(i - 1) : c[k] \notin {"e", "E"}) - 1
    ELSE Len(c)

\* a mantissa, and an exponent or nothing after it
IsDecimal(c) ==
    /\ IsMantissa(SubSeq(c, 1, MantissaEnd(c)))
    /\ MantissaEnd(c) = Len(c) \/ IsExponent(SubSeq(c, MantissaEnd(c) + 1, Len(c)))

\* the digits of a text with its '_' taken out
Digits(b) == SelectSeq(b, LAMBDA c : c # "_")

\* a text is a number: whitespace around it aside, an optional sign, then
\* digits with an optional point and an optional exponent, where '_' may
\* separate two digits
IsNumber(t) ==
    /\ UnderscoresBetweenDigits(Unsigned(Trimmed(t)))
    /\ IsDecimal(Digits(Unsigned(Trimmed(t))))

\* a text is inf, infinity or nan, in any case, with an optional sign and
\* whitespace around it
IsInfNan(t) ==
    lower(Unsigned(Trimmed(t)))
        \in { <<"i", "n", "f">>, <<"i", "n", "f", "i", "n", "i", "t", "y">>,
              <<"n", "a", "n">> }

\* the natural that a sequence of digits writes
RECURSIVE NaturalOf(_)
NaturalOf(ds) ==
    IF ds = <<>> THEN <<>>
    ELSE mul_small(NaturalOf(SubSeq(ds, 1, Len(ds) - 1)), 10, DigitVal(ds[Len(ds)]))

\* the integer that a sequence of digits writes
RECURSIVE IntegerOf(_)
IntegerOf(ds) ==
    IF ds = <<>> THEN 0
    ELSE 10 * IntegerOf(SubSeq(ds, 1, Len(ds) - 1)) + DigitVal(ds[Len(ds)])

\* the value of an exponent text (0 of none)
ExponentOf(x) ==
    IF x = <<>> THEN 0
    ELSE IF x[2] = "-" THEN 0 - IntegerOf(SubSeq(x, 3, Len(x)))
    ELSE IF x[2] = "+" THEN IntegerOf(SubSeq(x, 3, Len(x)))
    ELSE IntegerOf(Tail(x))

\* the number of digits of a mantissa text after its point
FractionDigits(m) ==
    IF \E i \in 1..Len(m) : m[i] = "." THEN Len(m) - (CHOOSE i \in 1..Len(m) : m[i] = ".")
    ELSE 0

\* the double of a decimal text c: its mantissa digits over ten to the
\* number of its fraction digits less its exponent
DoubleOf(sign, c, m) ==
    to_double(sign, NaturalOf(SelectSeq(m, LAMBDA d : d # ".")),
              FractionDigits(m) - ExponentOf(SubSeq(c, Len(m) + 1, Len(c))))

DoubleOfDecimal(sign, c) == DoubleOf(sign, c, SubSeq(c, 1, MantissaEnd(c)))

\* the double nearest to the number a text denotes
NumberOf(t) ==
    DoubleOfDecimal(IF Trimmed(t)[1] = "-" THEN 0 - 1 ELSE 1, Digits(Unsigned(Trimmed(t))))

\* |x| < |y| for finite doubles, neither zero
SmallerMagnitude(x, y) ==
    less(shl(x.m, x.e - Min(x.e, y.e)), shl(y.m, y.e - Min(x.e, y.e)))

\* x > y for doubles other than nan
Greater(x, y) ==
    IF x.kind = "inf" THEN x.sign = 1 /\ ~(y.kind = "inf" /\ y.sign = 1)
    ELSE IF y.kind = "inf" THEN y.sign = 0 - 1
    ELSE IF y.m = <<>> THEN x.m # <<>> /\ x.sign = 1
    ELSE IF x.m = <<>> THEN y.sign = 0 - 1
    ELSE IF x.sign # y.sign THEN x.sign = 1
    ELSE IF x.sign = 1 THEN SmallerMagnitude(y, x)
    ELSE SmallerMagnitude(x, y)

\* C4 (as claimed): calculate_available returns 0.0 and raises nothing when
\* at least one of its inputs, with '$' and ',' removed, is not a number,
\* whichever of the two it is and whatever the other is.
C4_UnparsableGivesZero ==
    (calcOut # <<>> /\ (~IsNumber(Bare(calcIn[1])) \/ ~IsNumber(Bare(calcIn[2]))))
        => calcOut[1] = [raised |-> "none", val |-> Zero]

\* C4 (amended): calculate_available returns 0.0 and raises nothing when
\* at least one of its inputs, with '$' and ',' removed, is a text that
\* float() rejects: neither a number nor inf, infinity or nan (in any
\* case, with an optional sign and whitespace around), whichever of the
\* two it is and whatever the other is.
C4_RejectedGivesZero ==
    (/\ calcOut # <<>>
     /\ \E i \in 1..2 : ~IsNumber(Bare(calcIn[i])) /\ ~IsInfNan(Bare(calcIn[i])))
        => calcOut[1] = [raised |-> "none", val |-> Zero]

C4_Witness ==
    /\ calcOut # <<>>
    /\ calcIn = << <<"a", "b", "c">>, <<"1", "0", "0">> >>
    /\ calcOut[1].raised = "none"
    /\ calcOut[1].val = Num(1, <<>>, 0)

\* C5: for inputs that are both numbers once '$' and ',' are removed,
\* calculate_available raises nothing and returns the float of budget
\* minus the float of spent: the double nearest to their difference,
\* negative when spent is the greater, and not 0.0 in its place.
C5_Difference ==
    (calcOut # <<>> /\ IsNumber(Bare(calcIn[1])) /\ IsNumber(Bare(calcIn[2])))
        => /\ calcOut[1].raised = "none"
           /\ calcOut[1].val = Sub(NumberOf(Bare(calcIn[1])), NumberOf(Bare(calcIn[2])))
           /\ Greater(NumberOf(Bare(calcIn[2])), NumberOf(Bare(calcIn[1])))
                => /\ calcOut[1].val.sign = 0 - 1
                   /\ calcOut[1].val.kind = "inf" \/ calcOut[1].val.m # <<>>

\* 749.5 is 1499 / 2
C5_Witness ==
    /\ calcOut # <<>>
    /\ calcIn = << <<"$", "1", ",", "2", "0", "0", ".", "0", "0">>,
                   <<"$", "4", "5", "0", ".", "5", "0">> >>
    /\ calcOut[1] = [raised |-> "none", val |-> Num(1, <<1499>>, 0 - 1)]

\* C6: get_status_indicator is monotonic: for a <= b the band of b is at
\* least as favourable as the band of a (an earlier branch of the chain);
\* every a > 1000 gets the first, most favourable band, and every value
\* gets one band.
C6_Monotonic ==
    statusOut # <<>>
        => /\ statusOut[1] \in 1..(Len(bands) + 2)
           /\ statusOut[2] \in 1..(Len(bands) + 2)
           /\ availIn[1] > 1000 => statusOut[1] = 1
           /\ availIn[1] <= availIn[2] => statusOut[2] <= statusOut[1]

C6_Witness ==
    /\ statusOut # <<>>
    /\ Len(bands) = 2
    /\ availIn[1] < availIn[2]
    /\ availIn[2] > 1000
    /\ statusOut = <<3, 1>>

============================================================================
